---- MODULE Spec2Model ----
(***************************************************************************)
(* A model of BytesQuilt (src/src/lib.rs): a byte buffer that tracks the   *)
(* locations of random-access writes.  The quilt is the triple             *)
(* (tail_offset, segments, buffer_tail); put_at, missing_segments and      *)
(* into_inner are translated from the source.  A BytesMut is modelled by   *)
(* the bytes it holds (data) and its capacity (cap); indices into          *)
(* `segments` are 0-based as in the source (At, InsertAt convert).         *)
(***************************************************************************)
EXTENDS Integers, Sequences, FiniteSets, TLC

VARIABLES tail_offset, segments, buffer_tail, debug_assertions, pc, call, inner, todo,
          twin, noted

vars == <<tail_offset, segments, buffer_tail, debug_assertions, pc, call, inner, todo,
          twin, noted>>

(***************************************************************************)
(* Bounds of the model.                                                    *)
(***************************************************************************)
\* largest offset a put_at call is given
MaxOffset == 3
\* longest src a put_at call is given
MaxLen == 2
\* most bytes the quilt holds (ledger and tail together)
MaxBytes == 4
\* most ledger entries
MaxSegs == 3
\* length of the stream assembled by SpecAssemble and SpecInOrder
StreamLen == 4
\* most chunks the stream is cut into by SpecInOrder
MaxChunks == 4
\* longest gap given to offsets_for
MaxGap == 10
\* largest frame size given to offsets_for
MaxFrame == 5

\* a capacity hint no call of the model outgrows
AmpleCap == MaxOffset + MaxLen

Min(a, b) == IF a < b THEN a ELSE b

(***************************************************************************)
(* Bytes.  The byte a caller supplies for logical position p is the number *)
(* p itself, so that a byte found in the quilt tells the position it was   *)
(* supplied for.                                                           *)
(***************************************************************************)
\* the n bytes a caller supplies for positions offset .. offset + n - 1
Src(offset, n) == [i \in 1..n |-> offset + i - 1]

(***************************************************************************)
(* bytes::BytesMut, as far as the quilt uses it.                           *)
(***************************************************************************)
BytesMut_new == [data |-> <<>>, cap |-> 0]

BytesMut_with_capacity(capacity) == [data |-> <<>>, cap |-> capacity]

len(b) == Len(b.data)

is_empty(b) == Len(b.data) = 0

capacity(b) == b.cap

\* split_off(at) asserts at <= capacity
split_off_panics(b, at) == at < 0 \/ at > b.cap

\* what self keeps: [0, at)
split_off_front(b, at) ==
    [data |-> SubSeq(b.data, 1, Min(at, Len(b.data))), cap |-> at]

\* what split_off returns: [at, capacity)
split_off_back(b, at) ==
    [data |-> SubSeq(b.data, at + 1, Len(b.data)), cap |-> b.cap - at]

\* a slip: the spare capacity is taken along
split_taken_whole(b) == b

\* split() returns the written bytes [0, len)
split_taken(b) == [data |-> b.data, cap |-> Len(b.data)]

\* and self keeps the spare capacity [len, capacity)
split_rest(b) == [data |-> <<>>, cap |-> b.cap - Len(b.data)]

\* a slip: the bytes held are replaced
put_replacing(b, src, slack) ==
    [data |-> src, cap |-> IF b.cap >= Len(src) THEN b.cap ELSE Len(src) + slack]

\* put(src): extend_from_slice; reserves when the spare capacity is too small,
\* and the new capacity is then at least len + src.len() (slack more).
put(b, src, slack) ==
    [data |-> b.data \o src,
     cap  |-> IF b.cap - Len(b.data) >= Len(src)
              THEN b.cap
              ELSE Len(b.data) + Len(src) + slack]

\* a slip: the bytes of other are put in front
unsplit_in_front(b, other) ==
    [data |-> other.data \o b.data, cap |-> Len(b.data) + other.cap]

\* unsplit(other): the bytes of other follow the bytes of self
unsplit(b, other) ==
    IF is_empty(b) THEN other
    ELSE IF other.cap = 0 THEN b
    ELSE [data |-> b.data \o other.data, cap |-> Len(b.data) + other.cap]

(***************************************************************************)
(* Segment                                                                 *)
(***************************************************************************)
Segment_missing(offset, buffer) ==
    [status |-> "Missing", offset |-> offset, buffer |-> buffer]

Segment_received(offset, buffer) ==
    [status |-> "Received", offset |-> offset, buffer |-> buffer]

is_missing(segment) == segment.status = "Missing"

\* Option<MissingSegment>
NoSegment == [some |-> FALSE, offset |-> 0, length |-> 0]

MissingSegment(offset, length) == [some |-> TRUE, offset |-> offset, length |-> length]

\* a slip: the written length is reported, as the messages of into_inner do
missing_segment_by_len(segment) ==
    IF segment.status = "Missing"
    THEN MissingSegment(segment.offset, len(segment.buffer))
    ELSE NoSegment

missing_segment(segment) ==
    IF segment.status = "Missing"
    THEN MissingSegment(segment.offset, capacity(segment.buffer))
    ELSE NoSegment

\* a slip: the frame that only partly fits is counted as well
offsets_for_rounding_up(m, frame_size) ==
    [k \in 1..((m.length + frame_size - 1) \div frame_size) |->
        ((k - 1) * frame_size) + m.offset]

\* offsets_for(frame_size): the offsets (index * frame_size) + offset for
\* index in 0..number_of_frames, number_of_frames = length / frame_size
offsets_for(m, frame_size) ==
    [k \in 1..(m.length \div frame_size) |-> ((k - 1) * frame_size) + m.offset]

(***************************************************************************)
(* Vec<Segment>, 0-based                                                   *)
(***************************************************************************)
At(segs, index) == segs[index + 1]

InsertAt(segs, index, segment) ==
    SubSeq(segs, 1, index) \o <<segment>> \o SubSeq(segs, index + 1, Len(segs))

ReplaceAt(segs, index, segment) == [segs EXCEPT ![index + 1] = segment]

(***************************************************************************)
(* binary_search_by_key(&offset, |segment| segment.offset).  The standard  *)
(* library promises only some match when several entries have the key, so  *)
(* both of its implementations are modelled and a call may use either.     *)
(***************************************************************************)
RECURSIVE bs_halving(_, _, _, _)
bs_halving(segs, key, base, size) ==
    IF size <= 1 THEN base
    ELSE LET half == size \div 2
             mid  == base + half
         IN  bs_halving(segs, key,
                        IF At(segs, mid).offset > key THEN base ELSE mid,
                        size - half)

\* the loop that halves `size` and compares once more at the end
binary_search_halving(segs, key) ==
    IF Len(segs) = 0 THEN [found |-> FALSE, index |-> 0]
    ELSE LET base == bs_halving(segs, key, 0, Len(segs))
             o    == At(segs, base).offset
         IN  IF o = key THEN [found |-> TRUE, index |-> base]
             ELSE [found |-> FALSE, index |-> base + (IF o < key THEN 1 ELSE 0)]

RECURSIVE bs_bisect(_, _, _, _)
bs_bisect(segs, key, left, right) ==
    IF left >= right THEN [found |-> FALSE, index |-> left]
    ELSE LET mid == left + ((right - left) \div 2)
             o   == At(segs, mid).offset
         IN  IF o < key THEN bs_bisect(segs, key, mid + 1, right)
             ELSE IF o > key THEN bs_bisect(segs, key, left, mid)
             ELSE [found |-> TRUE, index |-> mid]

\* the loop that returns at the first probe that matches
binary_search_bisect(segs, key) == bs_bisect(segs, key, 0, Len(segs))

Algs == {"halving", "bisect"}

binary_search_by_key(segs, key, alg) ==
    IF alg = "halving" THEN binary_search_halving(segs, key)
    ELSE binary_search_bisect(segs, key)

(***************************************************************************)
(* The quilt and the results of its operations                             *)
(***************************************************************************)
Quilt(t, s, b) == [tail_offset |-> t, segments |-> s, buffer_tail |-> b]

new == Quilt(0, <<>>, BytesMut_new)

with_capacity(cap) == Quilt(0, <<>>, BytesMut_with_capacity(cap))

OkNone == [kind |-> "Ok", err |-> "", missing |-> NoSegment]

OkSome(m) == [kind |-> "Ok", err |-> "", missing |-> m]

Err(e) == [kind |-> "Err", err |-> e, missing |-> NoSegment]

Panic == [kind |-> "Panic", err |-> "", missing |-> NoSegment]

NoResult == [kind |-> "None", err |-> "", missing |-> NoSegment]

(***************************************************************************)
(* write_offset_at_index: fill the entry at `index` with `bytes`.  Returns *)
(* the ledger afterwards and "Ok" or the error.                            *)
(***************************************************************************)
write_offset_at_index(segs, index, offset, bytes, slack) ==
    LET segment == At(segs, index)
    IN  IF segment.status = "Received"
        THEN [segments |-> segs, res |-> "WouldOverwrite"]
        ELSE IF capacity(segment.buffer) < Len(bytes)
        THEN [segments |-> segs, res |-> "NotEnoughSpace"]
        ELSE IF capacity(segment.buffer) = Len(bytes)
        THEN [segments |->
                  ReplaceAt(segs, index,
                            Segment_received(segment.offset,
                                             put(segment.buffer, bytes, slack))),
              res |-> "Ok"]
        ELSE LET written             == put(segment.buffer, bytes, slack)
                 new_relative_offset == len(written)
                 remaining_segment   == split_off_back(written, new_relative_offset)
                 kept                == split_off_front(written, new_relative_offset)
             IN  [segments |->
                      InsertAt(ReplaceAt(segs, index,
                                         Segment_received(segment.offset, kept)),
                               index + 1,
                               Segment_missing(offset + new_relative_offset,
                                               remaining_segment)),
                  res |-> "Ok"]

\* the debug assertion at the top of put_at
first_segment_offset_is_zero(segs) == Len(segs) = 0 \/ At(segs, 0).offset = 0

\* put_at, branch `self.tail_offset > offset`: write into the ledger
put_at_backfill(q, offset, src, slack, alg) ==
    LET found == binary_search_by_key(q.segments, offset, alg)
        index == found.index
    IN  IF found.found
        THEN LET w == write_offset_at_index(q.segments, index, offset, src, slack)
             IN  IF w.res = "Ok"
                 THEN [quilt |-> [q EXCEPT !.segments = w.segments], result |-> OkNone]
                 ELSE [quilt |-> q, result |-> Err(w.res)]
        ELSE IF index = 0
        THEN [quilt |-> q, result |-> Panic]
        ELSE LET segment == At(q.segments, index - 1)
                 at      == offset - segment.offset
             IN  IF split_off_panics(segment.buffer, at)
                 THEN [quilt |-> q, result |-> Panic]
                 ELSE LET to_write_buffer == split_off_back(segment.buffer, at)
                          shortened == [segment EXCEPT
                                          !.buffer = split_off_front(segment.buffer, at)]
                          segs1 == InsertAt(ReplaceAt(q.segments, index - 1, shortened),
                                            index,
                                            Segment_missing(offset, to_write_buffer))
                          w == write_offset_at_index(segs1, index, offset, src, slack)
                      IN  [quilt  |-> [q EXCEPT !.segments = w.segments],
                           result |-> IF w.res = "Ok" THEN OkNone ELSE Err(w.res)]

\* a slip: the frozen tail's length is not added to tail_offset
gap_head_offset_stale(q) == q.tail_offset

\* where the new gap starts: tail_offset, advanced past the tail if it is frozen
gap_head_offset(q) ==
    IF ~is_empty(q.buffer_tail)
    THEN q.tail_offset + len(q.buffer_tail)
    ELSE q.tail_offset

\* put_at, branch `self.tail_offset + self.buffer_tail.len() < offset`:
\* freeze the tail, record the gap, start a new tail
put_at_gap_ahead(q, offset, src, slack, debug) ==
    LET frozen == ~is_empty(q.buffer_tail)
        segs1  == IF frozen
                  THEN Append(q.segments,
                              Segment_received(q.tail_offset, split_taken(q.buffer_tail)))
                  ELSE q.segments
        tail1  == IF frozen THEN split_rest(q.buffer_tail) ELSE q.buffer_tail
        head_offset == gap_head_offset(q)
        at     == offset - head_offset
    IN  IF split_off_panics(tail1, at)
        THEN [quilt |-> Quilt(offset, segs1, tail1), result |-> Panic]
        ELSE LET tail_bytes == split_off_back(tail1, at)
                 head_bytes == split_off_front(tail1, at)
                 segment    == Segment_missing(head_offset, head_bytes)
             IN  IF debug /\ ~is_empty(head_bytes)
                 THEN [quilt |-> Quilt(offset, segs1, tail_bytes), result |-> Panic]
                 ELSE [quilt  |-> Quilt(offset, Append(segs1, segment),
                                        put(tail_bytes, src, slack)),
                       result |-> OkSome(missing_segment(segment))]

\* a slip: the tail is not asked whether it holds anything
overwrites_tail_start_always(q, offset) == q.tail_offset = offset

\* put_at, branch `self.tail_offset == offset && !self.buffer_tail.is_empty()`
overwrites_tail_start(q, offset) == q.tail_offset = offset /\ ~is_empty(q.buffer_tail)

(***************************************************************************)
(* put_at(offset, src).  slack and alg are the choices left to the         *)
(* libraries (capacity taken on growth, binary search implementation);     *)
(* debug says whether debug assertions are compiled in.                    *)
(***************************************************************************)
put_at(q, offset, src, slack, alg, debug) ==
    IF debug /\ ~first_segment_offset_is_zero(q.segments)
    THEN [quilt |-> q, result |-> Panic]
    ELSE IF q.tail_offset > offset
    THEN put_at_backfill(q, offset, src, slack, alg)
    ELSE IF q.tail_offset + len(q.buffer_tail) < offset
    THEN put_at_gap_ahead(q, offset, src, slack, debug)
    ELSE IF overwrites_tail_start(q, offset)
    THEN [quilt |-> q, result |-> Err("WouldOverwrite")]
    ELSE [quilt  |-> [q EXCEPT !.buffer_tail = put(q.buffer_tail, src, slack)],
          result |-> OkNone]

\* missing_segments(): one MissingSegment per Missing entry, in ledger order
missing_segments(q) ==
    LET ms == SelectSeq(q.segments, is_missing)
    IN  [i \in 1..Len(ms) |-> missing_segment(ms[i])]

RECURSIVE unsplit_all(_, _, _)
unsplit_all(buffer, segs, i) ==
    IF i > Len(segs) THEN buffer
    ELSE unsplit_all(unsplit(buffer, segs[i].buffer), segs, i + 1)

\* does a debug assertion of into_inner fail?
into_inner_asserts(q) == \A i \in 1..Len(q.segments) : ~is_missing(q.segments[i])

\* a slip: the tail is not appended
into_inner_without_tail(q) ==
    IF Len(q.segments) = 0 THEN q.buffer_tail
    ELSE unsplit_all(q.segments[1].buffer, q.segments, 2)

\* into_inner(): the segments' buffers in order, then the tail
into_inner(q) ==
    IF Len(q.segments) = 0 THEN q.buffer_tail
    ELSE unsplit(unsplit_all(q.segments[1].buffer, q.segments, 2), q.buffer_tail)

(***************************************************************************)
(* The state machine                                                       *)
(***************************************************************************)
Self == Quilt(tail_offset, segments, buffer_tail)

RECURSIVE SumLen(_, _)
SumLen(segs, i) ==
    IF i > Len(segs) THEN 0 ELSE len(segs[i].buffer) + SumLen(segs, i + 1)

TotalBytes(q) == SumLen(q.segments, 1) + len(q.buffer_tail)

WithinBounds(q) == TotalBytes(q) <= MaxBytes /\ Len(q.segments) <= MaxSegs

Call(op, offset, src, result, pre) ==
    [op |-> op, offset |-> offset, src |-> src, result |-> result, pre |-> pre]

\* a second quilt that is given the same calls: the quilt, what its last
\* call returned, where it stands and what into_inner returned
Twin(q, result, at, bytes) ==
    [quilt |-> q, result |-> result, pc |-> at, inner |-> bytes]

\* the quilt is q and the second quilt is q2
ConstructedPair(q, q2) ==
    /\ tail_offset = q.tail_offset
    /\ segments = q.segments
    /\ buffer_tail = q.buffer_tail
    /\ debug_assertions \in BOOLEAN
    /\ pc = "live"
    /\ call = Call("new", 0, <<>>, NoResult, q)
    /\ inner = <<>>
    /\ twin = Twin(q2, NoResult, "live", <<>>)
    /\ noted = <<>>

Constructed(q) == ConstructedPair(q, q)

\* the capacity hints tried: none, one the stream outgrows, an ample one
Capacities == {0, MaxOffset, AmpleCap}

\* the extra capacity a growing buffer may take: none, or one byte
Slacks == {0, 1}

\* BytesQuilt::new() or BytesQuilt::with_capacity(capacity)
Init ==
    /\ \E q \in {new} \cup {with_capacity(c) : c \in Capacities} : Constructed(q)
    /\ todo = <<>>

\* what a call of put_at can do, over the choices left to the libraries
Outcomes(offset, src) ==
    {put_at(Self, offset, src, slack, alg, debug_assertions) :
        slack \in Slacks, alg \in Algs}

\* where a caller stands after a call with this result
After(result) == IF result.kind = "Panic" THEN "panicked" ELSE "live"

\* the call put_at(offset, src) with outcome r, on the quilt
Applied(offset, src, r) ==
    /\ tail_offset' = r.quilt.tail_offset
    /\ segments' = r.quilt.segments
    /\ buffer_tail' = r.quilt.buffer_tail
    /\ call' = Call("put_at", offset, src, r.result, Self)
    /\ pc' = After(r.result)
    /\ UNCHANGED <<debug_assertions, inner>>

\* the call put_at(offset, src) with outcome r
Apply(offset, src, r) == Applied(offset, src, r) /\ UNCHANGED <<twin, noted>>

\* a caller puts any bytes at any offset
PutAt ==
    /\ pc = "live"
    /\ \E offset \in 0..MaxOffset, n \in 0..MaxLen :
          \E r \in Outcomes(offset, Src(offset, n)) :
              WithinBounds(r.quilt) /\ Apply(offset, Src(offset, n), r)
    /\ UNCHANGED todo

\* into_inner() on the quilt
Consumed ==
    /\ pc = "live"
    /\ IF debug_assertions /\ ~into_inner_asserts(Self)
       THEN pc' = "panicked" /\ inner' = inner
       ELSE pc' = "consumed" /\ inner' = into_inner(Self).data
    /\ call' = Call("into_inner", 0, <<>>, NoResult, Self)
    /\ UNCHANGED <<tail_offset, segments, buffer_tail, debug_assertions, todo>>

\* the caller consumes the quilt
IntoInner == Consumed /\ UNCHANGED <<twin, noted>>

Next == PutAt \/ IntoInner

Spec == Init /\ [][Next]_vars

(***************************************************************************)
(* Assembling a stream.  The stream of StreamLen bytes is cut into chunks; *)
(* todo holds the chunks not yet put.                                      *)
(***************************************************************************)
Stream == Src(0, StreamLen)

Chunk(offset, n) == [offset |-> offset, src |-> Src(offset, n)]

Least(S) == CHOOSE x \in S : \A y \in S : x <= y

\* the chunks of the stream from position b on, cut at the positions in cuts
RECURSIVE CutFrom(_, _)
CutFrom(b, cuts) ==
    IF b >= StreamLen THEN <<>>
    ELSE LET nxt == Least({x \in cuts \cup {StreamLen} : x > b})
         IN  <<Chunk(b, nxt - b)>> \o CutFrom(nxt, cuts)

Remove(seq, i) == SubSeq(seq, 1, i - 1) \o SubSeq(seq, i + 1, Len(seq))

\* with_capacity(c) for c >= StreamLen, and the stream cut into non-empty chunks
InitAssemble ==
    /\ \E c \in StreamLen..(StreamLen + 1) : Constructed(with_capacity(c))
    /\ \E cuts \in SUBSET (1..(StreamLen - 1)) : todo = CutFrom(0, cuts)

\* the caller puts one of the remaining chunks, whichever
PutChunk ==
    /\ pc = "live"
    /\ \E i \in 1..Len(todo) :
          /\ \E r \in Outcomes(todo[i].offset, todo[i].src) :
                Apply(todo[i].offset, todo[i].src, r)
          /\ todo' = Remove(todo, i)

\* into_inner once every chunk is put
Finish == todo = <<>> /\ IntoInner

NextAssemble == PutChunk \/ Finish

SpecAssemble == InitAssemble /\ [][NextAssemble]_vars

(***************************************************************************)
(* Filling in order.  The stream is cut into at most MaxChunks consecutive *)
(* chunks, empty ones allowed, and they are put first to last.             *)
(***************************************************************************)
RECURSIVE Total(_, _)
Total(lens, i) == IF i > Len(lens) THEN 0 ELSE lens[i] + Total(lens, i + 1)

RECURSIVE ChunksOf(_, _, _)
ChunksOf(lens, i, offset) ==
    IF i > Len(lens) THEN <<>>
    ELSE <<Chunk(offset, lens[i])>> \o ChunksOf(lens, i + 1, offset + lens[i])

InitInOrder ==
    /\ \E q \in {new} \cup {with_capacity(c) : c \in Capacities} : Constructed(q)
    /\ \E k \in 1..MaxChunks :
          \E lens \in [1..k -> 0..StreamLen] :
              Total(lens, 1) = StreamLen /\ todo = ChunksOf(lens, 1, 0)

\* the caller puts the next chunk
PutNext ==
    /\ pc = "live"
    /\ todo # <<>>
    /\ \E r \in Outcomes(Head(todo).offset, Head(todo).src) :
          Apply(Head(todo).offset, Head(todo).src, r)
    /\ todo' = Tail(todo)

NextInOrder == PutNext \/ Finish

SpecInOrder == InitInOrder /\ [][NextInOrder]_vars

(***************************************************************************)
(* A wider range of offsets on a quilt of ample capacity: room for a       *)
(* Received entry of MaxOffset bytes followed by a gap as long.            *)
(***************************************************************************)
WideOffset == 2 * MaxOffset

InitWide ==
    /\ Constructed(with_capacity(WideOffset + MaxLen))
    /\ todo = <<>>

PutAtWide ==
    /\ pc = "live"
    /\ \E offset \in 0..WideOffset, n \in 0..MaxLen :
          \E r \in Outcomes(offset, Src(offset, n)) :
              /\ TotalBytes(r.quilt) <= MaxBytes
              /\ Len(r.quilt.segments) <= MaxSegs + 1
              /\ Apply(offset, Src(offset, n), r)
    /\ UNCHANGED todo

NextWide == PutAtWide \/ IntoInner

SpecWide == InitWide /\ [][NextWide]_vars

(***************************************************************************)
(* Two quilts built with different capacity hints are given the same       *)
(* calls; twin is the second one.                                          *)
(***************************************************************************)
Hints == {new} \cup {with_capacity(c) : c \in Capacities}

InitPair ==
    /\ \E q \in Hints, q2 \in Hints :
          capacity(q.buffer_tail) < capacity(q2.buffer_tail) /\ ConstructedPair(q, q2)
    /\ todo = <<>>

\* what the same call can do on both quilts: one build, so one binary
\* search; each buffer grows as it will
PairOutcomes(offset, src) ==
    {<<put_at(Self, offset, src, slack, alg, debug_assertions),
       put_at(twin.quilt, offset, src, slack2, alg, debug_assertions)>> :
        slack \in Slacks, slack2 \in Slacks, alg \in Algs}

\* the same put_at call on both quilts
PutAtBoth ==
    /\ pc = "live"
    /\ twin.pc = "live"
    /\ \E offset \in 0..MaxOffset, n \in 0..MaxLen :
          \E rr \in PairOutcomes(offset, Src(offset, n)) :
              /\ WithinBounds(rr[1].quilt)
              /\ WithinBounds(rr[2].quilt)
              /\ Applied(offset, Src(offset, n), rr[1])
              /\ twin' = Twin(rr[2].quilt, rr[2].result, After(rr[2].result), twin.inner)
    /\ UNCHANGED <<todo, noted>>

\* into_inner() on both quilts
IntoInnerBoth ==
    /\ twin.pc = "live"
    /\ Consumed
    /\ twin' = IF debug_assertions /\ ~into_inner_asserts(twin.quilt)
               THEN Twin(twin.quilt, NoResult, "panicked", twin.inner)
               ELSE Twin(twin.quilt, NoResult, "consumed", into_inner(twin.quilt).data)
    /\ UNCHANGED noted

NextPair == PutAtBoth \/ IntoInnerBoth

SpecPair == InitPair /\ [][NextPair]_vars

(***************************************************************************)
(* Frame tiling: offsets_for on a MissingSegment of any offset and length, *)
(* for any frame size from one up.                                         *)
(***************************************************************************)
InitFrames ==
    /\ Constructed(new)
    /\ \E o \in 0..MaxOffset, length \in 0..MaxGap, frame_size \in 1..MaxFrame :
          todo = <<[gap |-> MissingSegment(o, length), frame_size |-> frame_size]>>

\* the caller collects gap.offsets_for(frame_size)
OffsetsFor ==
    /\ todo # <<>>
    /\ call' = [op |-> "offsets_for",
                gap |-> Head(todo).gap,
                frame_size |-> Head(todo).frame_size,
                offsets |-> offsets_for(Head(todo).gap, Head(todo).frame_size)]
    /\ todo' = Tail(todo)
    /\ UNCHANGED <<tail_offset, segments, buffer_tail, debug_assertions, pc, inner, twin,
                   noted>>

NextFrames == OffsetsFor

SpecFrames == InitFrames /\ [][NextFrames]_vars

(***************************************************************************)
(* The worked example: three chunks of two bytes are put at offsets 4, 2   *)
(* and 0, in this order, on a quilt with capacity for them.  todo keeps    *)
(* the chunks and counts the ones put.                                     *)
(***************************************************************************)
Pairs == {<<2, 1>>, <<6, 5>>, <<8, 7>>, <<4, 3>>}

ExampleChunks(first, second, third) ==
    <<[offset |-> 4, src |-> first], [offset |-> 2, src |-> second],
      [offset |-> 0, src |-> third]>>

TheExample == ExampleChunks(<<2, 1>>, <<6, 5>>, <<8, 7>>)

InitExample ==
    /\ \E first \in Pairs, second \in Pairs, third \in Pairs :
          /\ todo = [chunks |-> ExampleChunks(first, second, third), put |-> 0]
          /\ \E c \in {Len(first \o second \o third), AmpleCap + Len(third)} :
                Constructed(with_capacity(c))

\* the caller puts the next chunk of the example
PutExample ==
    /\ pc = "live"
    /\ todo.put < Len(todo.chunks)
    /\ LET chunk == todo.chunks[todo.put + 1]
       IN  \E r \in Outcomes(chunk.offset, chunk.src) :
               Apply(chunk.offset, chunk.src, r)
    /\ todo' = [todo EXCEPT !.put = @ + 1]

\* into_inner once the three chunks are put
FinishExample ==
    /\ todo.put = Len(todo.chunks)
    /\ IntoInner

NextExample == PutExample \/ FinishExample

SpecExample == InitExample /\ [][NextExample]_vars

(***************************************************************************)
(* A caller that keeps the gaps it was told of: noted holds, in order,     *)
(* the MissingSegment of every Ok(Some(_)) that put_at returned.           *)
(***************************************************************************)
InitReports == Init

\* what the caller has been told after a call with this result
Told(result) ==
    IF result.kind = "Ok" /\ result.missing.some
    THEN Append(noted, result.missing)
    ELSE noted

\* a caller puts any bytes at any offset and notes the gap it is told of
PutAtNoting ==
    /\ pc = "live"
    /\ \E offset \in 0..MaxOffset, n \in 0..MaxLen :
          \E r \in Outcomes(offset, Src(offset, n)) :
              /\ WithinBounds(r.quilt)
              /\ Applied(offset, Src(offset, n), r)
              /\ noted' = Told(r.result)
    /\ UNCHANGED <<todo, twin>>

NextReports == PutAtNoting \/ IntoInner

SpecReports == InitReports /\ [][NextReports]_vars

(***************************************************************************)
(* Tiled backfill.  After any calls of put_at the caller takes a gap that  *)
(* missing_segments() lists and a frame size that divides its length, and  *)
(* puts one frame at each offset of offsets_for, in any order; then it may *)
(* go on with another listed gap.  todo holds the tiling under way: the    *)
(* gap, the frame size, the offsets left and the number of frames put.     *)
(***************************************************************************)
Tiling(gap, frame_size, left, frames_put) ==
    [gap |-> gap, frame_size |-> frame_size, left |-> left, put |-> frames_put]

Elements(seq) == {seq[k] : k \in 1..Len(seq)}

\* any put_at call, before the first tiling
PutBeforeTiling == todo = <<>> /\ PutAt

\* the caller picks a listed gap and a frame size
StartTiling ==
    /\ pc = "live"
    /\ IF todo = <<>> THEN TRUE ELSE todo[1].left = {}
    /\ \E gap \in Elements(missing_segments(Self)), frame_size \in 1..MaxLen :
          /\ gap.length % frame_size = 0
          /\ todo' = <<Tiling(gap, frame_size,
                              Elements(offsets_for(gap, frame_size)), 0)>>
    /\ UNCHANGED <<tail_offset, segments, buffer_tail, debug_assertions, pc, call,
                   inner, twin, noted>>

\* the caller puts the frame at one of the offsets left, whichever
PutFrame ==
    /\ pc = "live"
    /\ todo # <<>>
    /\ \E x \in todo[1].left :
          /\ \E r \in Outcomes(x, Src(x, todo[1].frame_size)) :
                Apply(x, Src(x, todo[1].frame_size), r)
          /\ todo' = <<Tiling(todo[1].gap, todo[1].frame_size,
                              todo[1].left \ {x}, todo[1].put + 1)>>

NextTile == PutBeforeTiling \/ StartTiling \/ PutFrame

SpecTile == Init /\ [][NextTile]_vars

(***************************************************************************)
(* Vocabulary of the properties                                            *)
(***************************************************************************)
\* the last operation was a put_at call
Put == call.op = "put_at"

\* the quilt as it was before the last operation
Pre == call.pre

Returned(result) == Put /\ call.result = result

\* one past the last position the call writes
CallEnd == call.offset + Len(call.src)

\* the reserved range of a ledger entry is [offset, SegEnd)
SegEnd(segment) == segment.offset + capacity(segment.buffer)

\* position p is already received in q: inside a Received entry or the tail
ReceivedAt(q, p) ==
    \/ \E i \in 1..Len(q.segments) :
          /\ q.segments[i].status = "Received"
          /\ q.segments[i].offset <= p
          /\ p < SegEnd(q.segments[i])
    \/ (q.tail_offset <= p /\ p < q.tail_offset + len(q.buffer_tail))

\* the ledger of q tiles [0, tail_offset)
Tiles(q) ==
    /\ (Len(q.segments) = 0 <=> q.tail_offset = 0)
    /\ Len(q.segments) > 0 => q.segments[1].offset = 0
    /\ \A i \in 1..(Len(q.segments) - 1) :
          SegEnd(q.segments[i]) = q.segments[i + 1].offset
    /\ Len(q.segments) > 0 => SegEnd(q.segments[Len(q.segments)]) = q.tail_offset

(***************************************************************************)
(* C1                                                                      *)
(***************************************************************************)
\* C1: out-of-order assembly.  With a capacity of at least the stream's
\* length, putting the chunks of a cut of the stream in any order succeeds
\* every time, leaves no missing segment after the last chunk, and
\* into_inner then returns the stream.
C1_OutOfOrderAssembly ==
    /\ Put => call.result.kind = "Ok"
    /\ (todo = <<>> /\ pc = "live") => missing_segments(Self) = <<>>
    /\ (todo = <<>> /\ call.op = "into_inner") => (pc = "consumed" /\ inner = Stream)

\* the stream was assembled from chunks that arrived out of order and split a gap
C1_Witness ==
    /\ call.op = "into_inner"
    /\ pc = "consumed"
    /\ inner = Stream
    /\ Len(segments) >= 3

(***************************************************************************)
(* C2                                                                      *)
(***************************************************************************)
\* C2: received data is never corrupted.  A put_at of a non-empty src that
\* covers a position already received (in a Received entry or in the tail)
\* returns an error and leaves the quilt as it was.
C2_NeverOverwritesReceived ==
    (/\ Put
     /\ Len(call.src) > 0
     /\ \E p \in call.offset..(CallEnd - 1) : ReceivedAt(Pre, p))
    => (call.result.kind = "Err" /\ Self = Pre)

(***************************************************************************)
(* C3                                                                      *)
(***************************************************************************)
\* C3: all-or-nothing failure.  When put_at returns Err the quilt
\* (tail_offset, the tail and the ledger) is as it was before the call.
C3_FailureChangesNothing ==
    (Put /\ call.result.kind = "Err")
    => (Self = Pre /\ missing_segments(Self) = missing_segments(Pre))

(***************************************************************************)
(* C4                                                                      *)
(***************************************************************************)
\* C4: no panic.  On a quilt built by new() or with_capacity(c), after any
\* sequence of put_at calls, a further put_at returns Ok or Err.
C4_PutAtNeverPanics == Put => call.result.kind \in {"Ok", "Err"}

(***************************************************************************)
(* C5                                                                      *)
(***************************************************************************)
\* C5: ledger tiling.  After every put_at call that returns, the ledger
\* tiles [0, tail_offset): first offset 0, each entry ends where the next
\* starts, the last ends at tail_offset, and the ledger is empty only when
\* tail_offset is 0.
C5_LedgerTiles == (Put /\ call.result.kind # "Panic") => Tiles(Self)

(***************************************************************************)
(* C6                                                                      *)
(***************************************************************************)
\* the live edge of q: one past the last position the tail holds
LiveEdge(q) == q.tail_offset + len(q.buffer_tail)

\* the last call wrote beyond the live edge
GapAhead == Put /\ call.offset > LiveEdge(Pre)

\* the capacity of the tail beyond the bytes it holds
Spare(q) == capacity(q.buffer_tail) - len(q.buffer_tail)

SplitsGap(q, c, i) ==
    /\ Len(c.src) > 0
    /\ q.segments[i].status = "Missing"
    /\ q.segments[i].offset < c.offset
    /\ c.offset + Len(c.src) < SegEnd(q.segments[i])

\* what the ledger shows of an entry
Shape(segment) ==
    [status |-> segment.status, offset |-> segment.offset,
     length |-> capacity(segment.buffer)]

\* C7: gap split on partial fill.  A put_at of non-empty src at a with
\* s < a and a + src.len() = b < e, for a Missing entry [s, e), returns
\* Ok(None); the entry is replaced by Missing [s, a), Received [a, b)
\* holding src, Missing [b, e); every other entry, tail_offset and the tail
\* are unchanged, so missing_segments() has [s, a), [b, e) in place of [s, e).
C7_PartialFillSplitsGap ==
    \A i \in 1..Len(Pre.segments) :
        (Put /\ SplitsGap(Pre, call, i)) =>
            LET g == Pre.segments[i]
            IN  /\ call.result = OkNone
                /\ Len(segments) = Len(Pre.segments) + 2
                /\ SubSeq(segments, 1, i - 1) = SubSeq(Pre.segments, 1, i - 1)
                /\ SubSeq(segments, i + 3, Len(segments))
                      = SubSeq(Pre.segments, i + 1, Len(Pre.segments))
                /\ Shape(segments[i])
                      = [status |-> "Missing", offset |-> g.offset,
                         length |-> call.offset - g.offset]
                /\ Shape(segments[i + 1])
                      = [status |-> "Received", offset |-> call.offset,
                         length |-> Len(call.src)]
                /\ segments[i + 1].buffer.data = call.src
                /\ Shape(segments[i + 2])
                      = [status |-> "Missing", offset |-> CallEnd,
                         length |-> SegEnd(g) - CallEnd]
                /\ tail_offset = Pre.tail_offset
                /\ buffer_tail = Pre.buffer_tail
                /\ missing_segments(Self)
                      = [k \in 1..(Len(missing_segments(Pre)) + 1) |->
                            LET j == Len(SelectSeq(SubSeq(Pre.segments, 1, i), is_missing))
                            IN  IF k < j THEN missing_segments(Pre)[k]
                                ELSE IF k = j
                                THEN MissingSegment(g.offset, call.offset - g.offset)
                                ELSE IF k = j + 1
                                THEN MissingSegment(CallEnd, SegEnd(g) - CallEnd)
                                ELSE missing_segments(Pre)[k - 1]]

\* a gap was split by a write strictly inside it
C7_Witness ==
    /\ Put
    /\ \E i \in 1..Len(Pre.segments) : SplitsGap(Pre, call, i)
    /\ Len(missing_segments(Self)) = Len(missing_segments(Pre)) + 1

(***************************************************************************)
(* C8                                                                      *)
(***************************************************************************)
\* the call c lands in the gap at entry i of q, at its start or inside it,
\* with more bytes than the gap has from there to its end
Overfills(q, c, i) ==
    /\ c.offset < q.tail_offset
    /\ q.segments[i].status = "Missing"
    /\ q.segments[i].offset <= c.offset
    /\ c.offset < SegEnd(q.segments[i])
    /\ Len(c.src) > SegEnd(q.segments[i]) - c.offset

\* C8: overfill rejection.  A put_at below tail_offset that lands in a
\* Missing entry with more bytes than remain to the end of that entry
\* returns Err(NotEnoughSpace); nothing is written and no gap ends further
\* than before.
C8_OverfillIsRejected ==
    \A i \in 1..Len(Pre.segments) :
        (Put /\ Overfills(Pre, call, i)) =>
            /\ call.result = Err("NotEnoughSpace")
            /\ into_inner(Self).data = into_inner(Pre).data
            /\ \A k \in 1..Len(segments) :
                  segments[k].status = "Missing" =>
                      \E j \in 1..Len(Pre.segments) :
                          /\ Pre.segments[j].status = "Missing"
                          /\ Pre.segments[j].offset <= segments[k].offset
                          /\ SegEnd(segments[k]) <= SegEnd(Pre.segments[j])

\* an overfill that started strictly inside a gap was rejected
C8_Witness ==
    /\ Returned(Err("NotEnoughSpace"))
    /\ \E i \in 1..Len(Pre.segments) :
          Overfills(Pre, call, i) /\ Pre.segments[i].offset < call.offset

(***************************************************************************)
(* C9                                                                      *)
(***************************************************************************)
\* the call c starts where a Received entry of q starts
AtReceivedStart(q, c) ==
    \E i \in 1..Len(q.segments) :
        q.segments[i].status = "Received" /\ q.segments[i].offset = c.offset

\* the call c starts where the non-empty tail of q starts
AtTailStart(q, c) == c.offset = q.tail_offset /\ ~is_empty(q.buffer_tail)

\* C9: overwrite rejection.  put_at returns Err(WouldOverwrite) whenever
\* offset is the start offset of a Received entry, and whenever offset is
\* tail_offset while the tail is non-empty.
C9_OverwriteIsRejected ==
    (Put /\ (AtReceivedStart(Pre, call) \/ AtTailStart(Pre, call)))
    => call.result = Err("WouldOverwrite")

\* both kinds of overwrite were rejected in one run
C9_Witness ==
    /\ Returned(Err("WouldOverwrite"))
    /\ AtReceivedStart(Pre, call)
    /\ ~is_empty(buffer_tail)

(***************************************************************************)
(* C10                                                                     *)
(***************************************************************************)
\* what a single put_at(0, Stream) on a new quilt makes into_inner return
SinglePut ==
    into_inner(put_at(new, 0, Stream, 0, "halving", debug_assertions).quilt).data

\* C10: in-order fill is independent of chunking.  Putting consecutive
\* chunks of the stream at offsets 0, len(c1), len(c1) + len(c2), ...
\* returns Ok(None) every time, leaves missing_segments() empty after every
\* call, and into_inner() returns the stream, as after one put_at(0, S).
C10_InOrderFillIgnoresChunking ==
    /\ Put => call.result = OkNone
    /\ pc = "live" => missing_segments(Self) = <<>>
    /\ (todo = <<>> /\ call.op = "into_inner")
          => (pc = "consumed" /\ inner = Stream /\ inner = SinglePut)

\* the stream was put in several chunks and then taken out whole
C10_Witness ==
    /\ call.op = "into_inner"
    /\ pc = "consumed"
    /\ inner = Stream
    /\ len(Pre.buffer_tail) = StreamLen
    /\ capacity(Pre.buffer_tail) > StreamLen

(***************************************************************************)
(* C11                                                                     *)
(***************************************************************************)
\* C11: the capacity hint is not a correctness constraint.  Two quilts
\* created with different capacity hints and given the same put_at calls
\* return the same result from every call, have the same missing_segments()
\* list, and into_inner() returns the same bytes from both.
C11_HintChangesNoResult ==
    /\ Put => call.result = twin.result
    /\ pc = twin.pc
    /\ pc = "live" => missing_segments(Self) = missing_segments(twin.quilt)
    /\ call.op = "into_inner" => inner = twin.inner

(***************************************************************************)
(* C12                                                                     *)
(***************************************************************************)
\* the last call returned Ok(Some(_))
ReturnedSome == Put /\ call.result.kind = "Ok" /\ call.result.missing.some

\* C12: put_at returns Ok(Some(_)) if and only if, before the call,
\* offset > tail_offset + buffer_tail.len(); every successful backfill
\* (offset < tail_offset) and every successful tail append returns Ok(None).
C12_SomeIffGapAhead ==
    /\ Put => (ReturnedSome <=> GapAhead)
    /\ (Put /\ call.result.kind = "Ok" /\ call.offset < Pre.tail_offset)
          => call.result = OkNone
    /\ (Put /\ call.result.kind = "Ok" /\ ~GapAhead) => call.result = OkNone

(***************************************************************************)
(* C13                                                                     *)
(***************************************************************************)
\* the positions a reported gap covers
Range(m) == m.offset..(m.offset + m.length - 1)

\* C13: missing_segments() yields, in ascending offset order, one (offset,
\* length) per Missing entry with the entry's reserved length; the ranges
\* are pairwise disjoint, lie below tail_offset and hold no byte of the
\* tail; the call leaves the quilt as it is.
C13_MissingSegmentsListsTheGaps ==
    pc = "live" =>
        LET ms == missing_segments(Self)
            gaps == SelectSeq(segments, is_missing)
        IN  /\ Len(ms) = Len(gaps)
            /\ \A i \in 1..Len(ms) :
                  ms[i] = MissingSegment(gaps[i].offset, capacity(gaps[i].buffer))
            /\ \A i \in 1..(Len(ms) - 1) : ms[i].offset <= ms[i + 1].offset
            /\ \A i, j \in 1..Len(ms) : i # j => Range(ms[i]) \cap Range(ms[j]) = {}
            /\ \A i \in 1..Len(ms) : ms[i].offset + ms[i].length <= tail_offset
            /\ \A i \in 1..Len(ms) :
                  Range(ms[i]) \cap (tail_offset..(LiveEdge(Self) - 1)) = {}
            /\ missing_segments(Self) = ms

(***************************************************************************)
(* C14                                                                     *)
(***************************************************************************)
\* the frame that starts at offset a
Frame(a, frame_size) == a..(a + frame_size - 1)

\* C14: frame tiling.  For a MissingSegment (o, L) and a frame size f >= 1,
\* offsets_for(f) yields the floor(L / f) values o + k * f, k from 0, in
\* ascending order; every frame lies inside [o, o + L), no two frames
\* overlap, and when f does not divide L the last L mod f bytes of the gap
\* are in no frame.
C14_FramesTileTheGap ==
    call.op = "offsets_for" =>
        LET o == call.gap.offset
            L == call.gap.length
            f == call.frame_size
            offsets == call.offsets
            covered == UNION {Frame(offsets[k], f) : k \in 1..Len(offsets)}
        IN  /\ Len(offsets) = L \div f
            /\ \A k \in 1..Len(offsets) : offsets[k] = o + (k - 1) * f
            /\ \A k \in 1..(Len(offsets) - 1) : offsets[k] < offsets[k + 1]
            /\ \A k \in 1..Len(offsets) : Frame(offsets[k], f) \subseteq o..(o + L - 1)
            /\ \A j, k \in 1..Len(offsets) :
                  j # k => Frame(offsets[j], f) \cap Frame(offsets[k], f) = {}
            /\ covered = o..(o + L - (L % f) - 1)

\* a gap of ten bytes tiled at frame size three from a non-zero offset:
\* three frames, and the last byte in none
C14_Witness ==
    /\ call.op = "offsets_for"
    /\ call.gap.offset > 0
    /\ call.gap.length = 10
    /\ call.frame_size = 3
    /\ Len(call.offsets) = 3
    /\ call.offsets[3] = call.gap.offset + 6

(***************************************************************************)
(* C15                                                                     *)
(***************************************************************************)
\* C15: tail invariant.  The tail holds the bytes of the logical range
\* [tail_offset, tail_offset + buffer_tail.len()): the byte at index i of
\* the tail is the byte a put_at call supplied for position tail_offset + i.
C15_TailHoldsItsRange ==
    \A i \in 1..len(buffer_tail) : buffer_tail.data[i] = tail_offset + i - 1

(***************************************************************************)
(* C16                                                                     *)
(***************************************************************************)
\* position p is in the reserved range of a ledger entry of q with this status
CoveredBy(q, status, p) ==
    \E i \in 1..Len(q.segments) :
        /\ q.segments[i].status = status
        /\ q.segments[i].offset <= p
        /\ p < SegEnd(q.segments[i])

\* C16: status is monotonic.  A position covered by a Received ledger
\* entry before a put_at call, successful or failed, is not covered by a
\* Missing entry after it, and missing_segments() reports no range that
\* contains it.
C16_ReceivedStaysReceived ==
    (Put /\ call.result.kind # "Panic") =>
        \A p \in 0..(Pre.tail_offset - 1) :
            CoveredBy(Pre, "Received", p) =>
                /\ ~CoveredBy(Self, "Missing", p)
                /\ \A k \in 1..Len(missing_segments(Self)) :
                      p \notin Range(missing_segments(Self)[k])

(***************************************************************************)
(* C17                                                                     *)
(***************************************************************************)
\* C17: a zero-length write is a no-op.  put_at(offset, &[]) returns
\* Ok(None) and leaves tail_offset, the tail, the ledger and
\* missing_segments() as they were, so that later calls behave as if it
\* had not been made.
C17_EmptyWriteIsNoOp ==
    (Put /\ Len(call.src) = 0) =>
        /\ call.result = OkNone
        /\ Self = Pre
        /\ missing_segments(Self) = missing_segments(Pre)

(***************************************************************************)
(* C18                                                                     *)
(***************************************************************************)
\* C18: segment storage invariant.  Every Missing ledger entry holds no
\* written bytes, and every Received ledger entry holds as many written
\* bytes as its reserved length (buffer length = capacity).
C18_SegmentStorage ==
    \A i \in 1..Len(segments) :
        /\ segments[i].status = "Missing" => len(segments[i].buffer) = 0
        /\ segments[i].status = "Received"
              => len(segments[i].buffer) = capacity(segments[i].buffer)

(***************************************************************************)
(* C19                                                                     *)
(***************************************************************************)
\* the three chunks were put and into_inner was called
ExampleDone == call.op = "into_inner" /\ todo.put = Len(todo.chunks)

\* C19 as stated: put_at(4, [2,1]), put_at(2, [6,5]), put_at(0, [8,7]) all
\* succeed and into_inner() returns [8,7,6,5,4,3,2,1].
C19_ExampleGivesEightBytes ==
    /\ Put => call.result.kind = "Ok"
    /\ (ExampleDone /\ todo.chunks = TheExample)
          => (pc = "consumed" /\ inner = <<8, 7, 6, 5, 4, 3, 2, 1>>)

\* C19: the worked example.  On an empty quilt with enough capacity,
\* put_at(4, [2,1]), put_at(2, [6,5]), put_at(0, [8,7]) all succeed and
\* into_inner() returns the six bytes [8,7,6,5,2,1]: the third chunk, the
\* second, the first, whatever bytes the chunks hold.
C19_ExampleGivesSixBytes ==
    /\ Put => call.result.kind = "Ok"
    /\ ExampleDone =>
          /\ pc = "consumed"
          /\ inner = todo.chunks[3].src \o todo.chunks[2].src \o todo.chunks[1].src
    /\ (ExampleDone /\ todo.chunks = TheExample) => inner = <<8, 7, 6, 5, 2, 1>>

\* the example's three chunks were put and the quilt taken out
C19_Witness ==
    /\ ExampleDone
    /\ todo.chunks = TheExample
    /\ pc = "consumed"
    /\ Len(Pre.segments) = 2
    /\ Len(inner) = 6

(***************************************************************************)
(* C20                                                                     *)
(***************************************************************************)
\* the entries the ledger gained in the last call
Gained == SubSeq(segments, Len(Pre.segments) + 1, Len(segments))

\* C20: gap-ahead freezes the tail.  After put_at(offset, src) with offset
\* beyond the live edge, on a tail with spare capacity for the gap, the
\* ledger has gained at its end a Received entry [F, F + t) holding the old
\* tail (when the tail held t > 0 bytes from F on) and then a Missing
\* entry from the old live edge to offset; tail_offset is offset, the tail
\* holds src, and the earlier entries are unchanged.
C20_GapAheadFreezesTail ==
    (GapAhead /\ Spare(Pre) >= call.offset - LiveEdge(Pre)) =>
        LET F == Pre.tail_offset
            t == len(Pre.buffer_tail)
            gap == [status |-> "Missing", offset |-> F + t,
                    length |-> call.offset - (F + t)]
        IN  /\ call.result.kind = "Ok"
            /\ SubSeq(segments, 1, Len(Pre.segments)) = Pre.segments
            /\ t > 0 =>
                  /\ Len(Gained) = 2
                  /\ Shape(Gained[1]) = [status |-> "Received", offset |-> F, length |-> t]
                  /\ Gained[1].buffer.data = Pre.buffer_tail.data
                  /\ Shape(Gained[2]) = gap
                  /\ is_empty(Gained[2].buffer)
            /\ t = 0 =>
                  /\ Len(Gained) = 1
                  /\ Shape(Gained[1]) = gap
                  /\ is_empty(Gained[1].buffer)
            /\ tail_offset = call.offset
            /\ buffer_tail.data = call.src

\* a tail that held bytes was frozen behind earlier entries, and the new
\* tail holds the bytes of the call
C20_Witness ==
    /\ GapAhead
    /\ call.result.kind = "Ok"
    /\ Len(Pre.segments) > 0
    /\ ~is_empty(Pre.buffer_tail)
    /\ Len(call.src) > 0
    /\ Len(Gained) = 2

(***************************************************************************)
(* C21                                                                     *)
(***************************************************************************)
\* entry i of q is a gap that starts where the call c starts, and the
\* bytes of c fit into it
FillsFromStart(q, c, i) ==
    /\ q.segments[i].status = "Missing"
    /\ q.segments[i].offset = c.offset
    /\ 1 <= Len(c.src)
    /\ Len(c.src) <= capacity(q.segments[i].buffer)

\* C21: fill at a gap's start.  A put_at at the offset of a Missing entry
\* of reserved length C with 1 <= src.len() < C makes the entry Received
\* with reserved length src.len() holding src and inserts a Missing entry
\* [offset + src.len(), offset + C) right after it; with src.len() = C the
\* entry becomes Received holding src and the ledger keeps its length.  All
\* other entries, tail_offset and the tail are unchanged.
C21_FillAtGapStart ==
    \A i \in 1..Len(Pre.segments) :
        (Put /\ FillsFromStart(Pre, call, i)) =>
            LET g == Pre.segments[i]
                n == Len(call.src)
                rest == IF n < capacity(g.buffer) THEN 1 ELSE 0
            IN  /\ call.result = OkNone
                /\ Len(segments) = Len(Pre.segments) + rest
                /\ SubSeq(segments, 1, i - 1) = SubSeq(Pre.segments, 1, i - 1)
                /\ SubSeq(segments, i + 1 + rest, Len(segments))
                      = SubSeq(Pre.segments, i + 1, Len(Pre.segments))
                /\ Shape(segments[i])
                      = [status |-> "Received", offset |-> call.offset, length |-> n]
                /\ segments[i].buffer.data = call.src
                /\ rest = 1 =>
                      /\ Shape(segments[i + 1])
                            = [status |-> "Missing", offset |-> CallEnd,
                               length |-> SegEnd(g) - CallEnd]
                      /\ is_empty(segments[i + 1].buffer)
                /\ tail_offset = Pre.tail_offset
                /\ buffer_tail = Pre.buffer_tail

\* the front of a gap was filled and the rest of the gap follows it
C21_Witness ==
    /\ Returned(OkNone)
    /\ \E i \in 1..Len(Pre.segments) :
          /\ FillsFromStart(Pre, call, i)
          /\ Len(call.src) < capacity(Pre.segments[i].buffer)
          /\ Len(segments) = Len(Pre.segments) + 1

(***************************************************************************)
(* C22                                                                     *)
(***************************************************************************)
\* the last call started after tail_offset and not beyond the live edge
MidTail == Put /\ Pre.tail_offset < call.offset /\ call.offset <= LiveEdge(Pre)

\* C22: unvalidated mid-tail write.  A put_at with tail_offset < offset <=
\* tail_offset + buffer_tail.len() returns Ok(None) and appends src at the
\* end of the tail, whatever offset was; the ledger and tail_offset are
\* unchanged, and the call is never rejected.
C22_MidTailWriteAppends ==
    MidTail =>
        /\ call.result = OkNone
        /\ buffer_tail.data = Pre.buffer_tail.data \o call.src
        /\ segments = Pre.segments
        /\ tail_offset = Pre.tail_offset

\* bytes given for a position inside the tail were appended to it
C22_Witness ==
    /\ MidTail
    /\ call.offset < LiveEdge(Pre)
    /\ Len(call.src) > 0
    /\ Len(segments) > 0
    /\ Len(buffer_tail.data) = Len(Pre.buffer_tail.data) + Len(call.src)

(***************************************************************************)
(* C23                                                                     *)
(***************************************************************************)
\* the last call was a backfill or did not succeed
BackfillOrFailed ==
    Put /\ (call.offset < Pre.tail_offset \/ call.result.kind = "Err")

\* C23: each gap is reported as new at most once.  The MissingSegment
\* values returned as Ok(Some(_)) over a sequence of put_at calls have
\* length >= 1, strictly increasing offsets and pairwise disjoint ranges;
\* tail_offset and the live edge never decrease, and a backfill or a failed
\* call leaves both unchanged.
C23_GapsAreReportedOnce ==
    /\ \A k \in 1..Len(noted) : noted[k].length >= 1
    /\ \A k \in 1..(Len(noted) - 1) : noted[k].offset < noted[k + 1].offset
    /\ \A j, k \in 1..Len(noted) :
          j # k => Range(noted[j]) \cap Range(noted[k]) = {}
    /\ (Put /\ call.result.kind # "Panic") =>
          /\ tail_offset >= Pre.tail_offset
          /\ LiveEdge(Self) >= LiveEdge(Pre)
    /\ BackfillOrFailed =>
          /\ tail_offset = Pre.tail_offset
          /\ LiveEdge(Self) = LiveEdge(Pre)

\* two gaps were reported, and a backfill followed
C23_Witness ==
    /\ Len(noted) >= 2
    /\ Returned(OkNone)
    /\ call.offset < Pre.tail_offset
    /\ Len(call.src) > 0

(***************************************************************************)
(* C24                                                                     *)
(***************************************************************************)
\* the call c gives the gap at entry i of q exactly the bytes it misses
FillsWhole(q, c, i) ==
    /\ q.segments[i].status = "Missing"
    /\ q.segments[i].offset = c.offset
    /\ Len(c.src) = capacity(q.segments[i].buffer)

\* the place of entry i of q in missing_segments(q)
PlaceInList(q, i) == Len(SelectSeq(SubSeq(q.segments, 1, i), is_missing))

\* C24: a listed gap can always be filled.  For every (o, L) that
\* missing_segments() yields, put_at(o, src) with src.len() = L returns
\* Ok(None), and missing_segments() is afterwards the list it was with
\* that one entry removed.
C24_ListedGapCanBeFilled ==
    \A i \in 1..Len(Pre.segments) :
        (Put /\ FillsWhole(Pre, call, i)) =>
            /\ call.result = OkNone
            /\ missing_segments(Self)
                  = Remove(missing_segments(Pre), PlaceInList(Pre, i))

\* a gap of two bytes, one of several listed, was filled whole
C24_Witness ==
    /\ Returned(OkNone)
    /\ Len(call.src) = 2
    /\ Len(missing_segments(Pre)) >= 2
    /\ \E i \in 1..Len(Pre.segments) : FillsWhole(Pre, call, i)
    /\ Len(missing_segments(Self)) = Len(missing_segments(Pre)) - 1

(***************************************************************************)
(* C25                                                                     *)
(***************************************************************************)
\* the last call put a frame of the tiling under way
FramePut == todo # <<>> /\ todo[1].put > 0 /\ Put

\* every frame of the tiling under way has been put
TilingDone == todo # <<>> /\ todo[1].left = {}

\* C25: tiled backfill completes.  For a gap (o, L) that missing_segments()
\* yields and a frame size f >= 1 that divides L, put_at(x, f bytes) for
\* every x of offsets_for(f), in any order, succeeds every time, and
\* afterwards missing_segments() reports no byte of [o, o + L).
C25_TiledBackfillCompletes ==
    /\ FramePut => call.result = OkNone
    /\ TilingDone =>
          \A k \in 1..Len(missing_segments(Self)) :
              Range(missing_segments(Self)[k]) \cap Range(todo[1].gap) = {}

\* a gap was tiled by two frames and the list of gaps is empty
C25_Witness ==
    /\ TilingDone
    /\ FramePut
    /\ call.result = OkNone
    /\ todo[1].put = 2
    /\ missing_segments(Self) = <<>>

(***************************************************************************)
(* C26                                                                     *)
(***************************************************************************)
\* C26: complete quilts have the right length.  In every state where
\* missing_segments() is empty the debug assertions of into_inner() hold,
\* the ledger entries together hold tail_offset bytes, and into_inner()
\* returns tail_offset + buffer_tail.len() bytes.
C26_CompleteQuiltHasItsLength ==
    /\ (pc = "live" /\ missing_segments(Self) = <<>>) =>
          /\ into_inner_asserts(Self)
          /\ SumLen(segments, 1) = tail_offset
          /\ len(into_inner(Self)) = LiveEdge(Self)
    /\ (call.op = "into_inner" /\ missing_segments(Pre) = <<>>) =>
          /\ pc = "consumed"
          /\ Len(inner) = LiveEdge(Pre)

====
